---- MODULE Spec2Model ----
(***************************************************************************)
(* twitch-oauth-async-std (src/src/lib.rs): four async operations against  *)
(* the Twitch authorization server.  Every call builds one request, awaits *)
(* client.send, and either decodes the JSON body (token issuing and        *)
(* validation) or returns the status code (revocation).                    *)
(*                                                                         *)
(* A text is a sequence of characters.  An element of a text is a single   *)
(* character, or a literal run of characters that query encoding leaves    *)
(* unchanged (letters, digits, '_', '.', '/'), such as "grant_type".       *)
(***************************************************************************)
EXTENDS Integers, Sequences, FiniteSets, TLC

VARIABLES op, args, sent, res, result, pc

vars == <<op, args, sent, res, result, pc>>

(***************************************************************************)
(* Bounds of the model.                                                    *)
(***************************************************************************)
NumCalls == 2
MaxLen == 2
MaxScopes == 2

Calls == 1..NumCalls

SeqsUpTo(S, n) == UNION {[1..k -> S] : k \in 0..n}

(***************************************************************************)
(* application/x-www-form-urlencoded, as Url::parse_with_params writes a   *)
(* query: a space becomes '+', letters, digits and "*-._" stay, every      *)
(* other byte becomes %XX.                                                 *)
(***************************************************************************)
byte_serialize(ch) ==
    CASE ch = " " -> <<"+">>
      [] ch = "&" -> <<"%", "2", "6">>
      [] ch = "=" -> <<"%", "3", "D">>
      [] ch = "+" -> <<"%", "2", "B">>
      [] ch = "%" -> <<"%", "2", "5">>
      [] ch = ":" -> <<"%", "3", "A">>
      [] OTHER    -> <<ch>>

RECURSIVE form_encode(_)
form_encode(s) ==
    IF s = <<>> THEN <<>> ELSE byte_serialize(Head(s)) \o form_encode(Tail(s))

\* Serializer::extend_pairs: name=value for each pair in iteration order,
\* pairs separated by '&'.
RECURSIVE extend_pairs(_, _)
extend_pairs(ord, params) ==
    IF ord = <<>> THEN <<>>
    ELSE LET pair == form_encode(Head(ord)) \o <<"=">> \o form_encode(params[Head(ord)])
         IN  IF Len(ord) = 1 THEN pair
             ELSE pair \o <<"&">> \o extend_pairs(Tail(ord), params)

\* The orders in which a HashMap with key set K may be iterated: all of them.
Orders(K) == {o \in [1..Cardinality(K) -> K] : \A i, j \in DOMAIN o : i # j => o[i] # o[j]}

NoQuery == [present |-> FALSE]

\* Url::parse_with_params(base, &params): the URLs it may return.
parse_with_params(base, params) ==
    {[base |-> base, query |-> [present |-> TRUE, text |-> extend_pairs(ord, params)]] :
        ord \in Orders(DOMAIN params)}

\* Faulty join: a separator after every element, the last included.
RECURSIVE join_trailing_sep(_, _)
join_trailing_sep(scopes, sep) ==
    IF scopes = <<>> THEN <<>>
    ELSE Head(scopes) \o sep \o join_trailing_sep(Tail(scopes), sep)

\* [String]::join(sep).
RECURSIVE join(_, _)
join(scopes, sep) ==
    IF scopes = <<>> THEN <<>>
    ELSE IF Len(scopes) = 1 THEN Head(scopes)
    ELSE Head(scopes) \o sep \o join(Tail(scopes), sep)

\* Faulty header value: the usual OAuth2 scheme instead of Twitch's.
format_Bearer(access_token) == <<"B", "e", "a", "r", "e", "r", " ">> \o access_token

\* format!("OAuth {}", access_token)
format_OAuth(access_token) == <<"O", "A", "u", "t", "h", " ">> \o access_token

(***************************************************************************)
(* The requests each operation may hand to client.send (one per possible   *)
(* iteration order of its parameter map).                                  *)
(***************************************************************************)
TokenUrl    == "https://id.twitch.tv/oauth2/token"
ValidateUrl == "https://id.twitch.tv/oauth2/validate"
RevokeUrl   == "https://id.twitch.tv/oauth2/revoke"

\* Faulty get_app_access_token: also inserts an empty scope parameter.
get_app_access_token_with_empty_scope(client_id, client_secret) ==
    LET params == (<<"grant_type">> :> <<"client_credentials">>)
                  @@ (<<"client_id">> :> client_id)
                  @@ (<<"client_secret">> :> client_secret)
                  @@ (<<"scope">> :> <<>>)
    IN  {[method |-> "POST", url |-> u, headers |-> {}] :
            u \in parse_with_params(TokenUrl, params)}

get_app_access_token(client_id, client_secret) ==
    LET params == (<<"grant_type">> :> <<"client_credentials">>)
                  @@ (<<"client_id">> :> client_id)
                  @@ (<<"client_secret">> :> client_secret)
    IN  {[method |-> "POST", url |-> u, headers |-> {}] :
            u \in parse_with_params(TokenUrl, params)}

\* Faulty get_app_access_token_with_scopes: leaves scope out when the list
\* is empty.
get_app_access_token_with_scopes_skip_empty(client_id, client_secret, scopes) ==
    LET params == (<<"grant_type">> :> <<"client_credentials">>)
                  @@ (<<"client_id">> :> client_id)
                  @@ (<<"client_secret">> :> client_secret)
        scoped == params @@ (<<"scope">> :> join(scopes, <<" ">>))
    IN  {[method |-> "POST", url |-> u, headers |-> {}] :
            u \in parse_with_params(TokenUrl, IF scopes = <<>> THEN params ELSE scoped)}

get_app_access_token_with_scopes(client_id, client_secret, scopes) ==
    LET joinee_scopes == join(scopes, <<" ">>)
        params == (<<"grant_type">> :> <<"client_credentials">>)
                  @@ (<<"client_id">> :> client_id)
                  @@ (<<"client_secret">> :> client_secret)
                  @@ (<<"scope">> :> joinee_scopes)
    IN  {[method |-> "POST", url |-> u, headers |-> {}] :
            u \in parse_with_params(TokenUrl, params)}

validate_token(access_token) ==
    LET auth == format_OAuth(access_token)
    IN  {[method |-> "GET",
          url |-> [base |-> ValidateUrl, query |-> NoQuery],
          headers |-> {<<"authorization", auth>>}]}

remoke_token(access_token, client_id) ==
    LET params == (<<"token">> :> access_token) @@ (<<"client_id">> :> client_id)
    IN  {[method |-> "POST", url |-> u, headers |-> {}] :
            u \in parse_with_params(RevokeUrl, params)}

(***************************************************************************)
(* JSON values of a response body.  A body is an object (a map from member *)
(* names to values), or text that is no JSON document, or nothing at all.  *)
(***************************************************************************)
JAbsent == [t |-> "absent"]
JNull   == [t |-> "null"]
JStr(s) == [t |-> "str", s |-> s]
JNum(n) == [t |-> "num", n |-> n]
JArr(a) == [t |-> "arr", a |-> a]

JObject(m) == [t |-> "object", m |-> m]
Garbage    == [t |-> "garbage"]
EmptyBody  == [t |-> "empty"]

\* The value of member `name`; JAbsent when the object has no such member.
Member(body, name) == IF name \in DOMAIN body.m THEN body.m[name] ELSE JAbsent

Ok_token(v)     == [t |-> "Ok", token |-> v]
Ok_validated(v) == [t |-> "Ok", validated |-> v]
Ok_status(s)    == [t |-> "Ok", status |-> s]
Err(source, cause) == [t |-> "Err", err |-> [source |-> source, cause |-> cause]]

\* serde's Deserialize for the field types of the two structs.
IsString(v)    == v.t = "str"
IsUsize(v)     == v.t = "num" /\ v.n >= 0
IsVecString(v) == v.t = "arr" /\ \A i \in DOMAIN v.a : v.a[i].t = "str"
IsOptional(v)  == v.t \in {"absent", "null"}

VecString(v) == [i \in DOMAIN v.a |-> v.a[i].s]
\* Option<T>: None is <<>>, Some(x) is <<x>>.
None    == <<>>
Some(x) == <<x>>

\* Faulty AppAccessToken: every field #[serde(default)], so a missing or
\* mistyped member becomes "" or 0 instead of an error.
AppAccessToken_with_defaults(body) ==
    IF body.t = "garbage" THEN Err("body_json", "syntax")
    ELSE IF body.t = "empty" THEN Err("body_json", "eof")
    ELSE LET access_token == Member(body, "access_token")
             expires_in   == Member(body, "expires_in")
             scope        == Member(body, "scope")
             token_type   == Member(body, "token_type")
         IN  Ok_token([access_token |-> IF IsString(access_token) THEN access_token.s ELSE "",
                       expires_in   |-> IF IsUsize(expires_in) THEN expires_in.n ELSE 0,
                       scope        |-> IF IsVecString(scope) THEN Some(VecString(scope))
                                        ELSE None,
                       token_type   |-> IF IsString(token_type) THEN token_type.s ELSE ""])

\* #[derive(Deserialize)] struct AppAccessToken, applied to a body by
\* res.body_json(): the value, or the decoder's error.
AppAccessToken(body) ==
    IF body.t = "garbage" THEN Err("body_json", "syntax")
    ELSE IF body.t = "empty" THEN Err("body_json", "eof")
    ELSE LET access_token == Member(body, "access_token")
             expires_in   == Member(body, "expires_in")
             scope        == Member(body, "scope")
             token_type   == Member(body, "token_type")
         IN  IF /\ IsString(access_token)
                /\ IsUsize(expires_in)
                /\ (IsOptional(scope) \/ IsVecString(scope))
                /\ IsString(token_type)
             THEN Ok_token([access_token |-> access_token.s,
                            expires_in   |-> expires_in.n,
                            scope        |-> IF IsOptional(scope) THEN None
                                             ELSE Some(VecString(scope)),
                            token_type   |-> token_type.s])
             ELSE Err("body_json", "data")

\* #[derive(Deserialize)] struct ValidatedToken.
ValidatedToken(body) ==
    IF body.t = "garbage" THEN Err("body_json", "syntax")
    ELSE IF body.t = "empty" THEN Err("body_json", "eof")
    ELSE LET client_id == Member(body, "client_id")
             login     == Member(body, "login")
             user_id   == Member(body, "user_id")
             scopes    == Member(body, "scopes")
         IN  IF /\ IsString(client_id)
                /\ (IsOptional(login) \/ IsString(login))
                /\ (IsOptional(user_id) \/ IsString(user_id))
                /\ IsVecString(scopes)
             THEN Ok_validated([client_id |-> client_id.s,
                                login     |-> IF IsOptional(login) THEN None
                                              ELSE Some(login.s),
                                user_id   |-> IF IsOptional(user_id) THEN None
                                              ELSE Some(user_id.s),
                                scopes    |-> VecString(scopes)])
             ELSE Err("body_json", "data")

\* Faulty body_json: a decode failure is reported as the error of a failed
\* send.
body_json_as_send_error(o, body) ==
    LET r == IF o = "validate_token" THEN ValidatedToken(body) ELSE AppAccessToken(body)
    IN  IF r.t = "Err" THEN Err("send", "connect") ELSE r

\* let resp: T = res.body_json().await?; Ok(resp)
body_json(o, body) ==
    IF o = "validate_token" THEN ValidatedToken(body) ELSE AppAccessToken(body)

\* Faulty status: a 4xx or 5xx answer is turned into an error.
status_errors_from_400(r) ==
    IF r.status >= 400 THEN Err("status", "rejected") ELSE Ok_status(r.status)

\* Ok(res.status())
status(r) == Ok_status(r.status)

\* client.send(req).await? when the transport fails: the error is returned.
send_error(cause) == Err("send", cause)

(***************************************************************************)
(* The calls.  pc[c] is the await point call c is suspended at.            *)
(***************************************************************************)
NoArgs   == [t |-> "none"]
NoRes    == [t |-> "none"]
Pending  == [t |-> "pending"]

Init ==
    /\ op     = [c \in Calls |-> "none"]
    /\ args   = [c \in Calls |-> NoArgs]
    /\ sent   = [c \in Calls |-> <<>>]
    /\ res    = [c \in Calls |-> NoRes]
    /\ result = [c \in Calls |-> Pending]
    /\ pc     = [c \in Calls |-> "idle"]

\* Each call_* action is the operation up to its first await: it builds its
\* request and hands it to client.send.
call_get_app_access_token(c, S) ==
    /\ pc[c] = "idle"
    /\ \E client_id \in S.ids, client_secret \in S.secrets :
         \E req \in get_app_access_token(client_id, client_secret) :
            /\ args' = [args EXCEPT ![c] = [client_id |-> client_id,
                                            client_secret |-> client_secret]]
            /\ sent' = [sent EXCEPT ![c] = Append(@, req)]
    /\ op' = [op EXCEPT ![c] = "get_app_access_token"]
    /\ pc' = [pc EXCEPT ![c] = "send"]
    /\ UNCHANGED <<res, result>>

call_get_app_access_token_with_scopes(c, S) ==
    /\ pc[c] = "idle"
    /\ \E client_id \in S.scoped_ids, client_secret \in S.scoped_secrets,
          scopes \in S.scopes :
         \E req \in get_app_access_token_with_scopes(client_id, client_secret, scopes) :
            /\ args' = [args EXCEPT ![c] = [client_id |-> client_id,
                                            client_secret |-> client_secret,
                                            scopes |-> scopes]]
            /\ sent' = [sent EXCEPT ![c] = Append(@, req)]
    /\ op' = [op EXCEPT ![c] = "get_app_access_token_with_scopes"]
    /\ pc' = [pc EXCEPT ![c] = "send"]
    /\ UNCHANGED <<res, result>>

\* Faulty call_validate_token: the header is kept in a client shared by the
\* calls, so a call sends the token of a validation still in flight.
call_validate_token_shared_header(c, S) ==
    /\ pc[c] = "idle"
    /\ \E access_token \in S.tokens :
         LET others == {d \in Calls : d # c /\ op[d] = "validate_token" /\ pc[d] # "done"}
             used   == IF others = {} THEN access_token
                       ELSE args[CHOOSE d \in others : TRUE].access_token
         IN  \E req \in validate_token(used) :
                /\ args' = [args EXCEPT ![c] = [access_token |-> access_token]]
                /\ sent' = [sent EXCEPT ![c] = Append(@, req)]
    /\ op' = [op EXCEPT ![c] = "validate_token"]
    /\ pc' = [pc EXCEPT ![c] = "send"]
    /\ UNCHANGED <<res, result>>

call_validate_token(c, S) ==
    /\ pc[c] = "idle"
    /\ \E access_token \in S.tokens :
         \E req \in validate_token(access_token) :
            /\ args' = [args EXCEPT ![c] = [access_token |-> access_token]]
            /\ sent' = [sent EXCEPT ![c] = Append(@, req)]
    /\ op' = [op EXCEPT ![c] = "validate_token"]
    /\ pc' = [pc EXCEPT ![c] = "send"]
    /\ UNCHANGED <<res, result>>

call_remoke_token(c, S) ==
    /\ pc[c] = "idle"
    /\ \E access_token \in S.tokens, client_id \in S.revoke_ids :
         \E req \in remoke_token(access_token, client_id) :
            /\ args' = [args EXCEPT ![c] = [access_token |-> access_token,
                                            client_id |-> client_id]]
            /\ sent' = [sent EXCEPT ![c] = Append(@, req)]
    /\ op' = [op EXCEPT ![c] = "remoke_token"]
    /\ pc' = [pc EXCEPT ![c] = "send"]
    /\ UNCHANGED <<res, result>>

\* client.send(req).await resolves with a response.  remoke_token returns
\* its status at once; the other operations go on to res.body_json().await.
send_ok(c, S) ==
    /\ pc[c] = "send"
    /\ \E st \in S.statuses[op[c]], body \in S.bodies[op[c]] :
         LET r == [t |-> "response", status |-> st, body |-> body]
         IN  /\ res' = [res EXCEPT ![c] = r]
             /\ IF op[c] = "remoke_token"
                THEN /\ result' = [result EXCEPT ![c] = status(r)]
                     /\ pc' = [pc EXCEPT ![c] = "done"]
                ELSE /\ pc' = [pc EXCEPT ![c] = "body_json"]
                     /\ UNCHANGED result
    /\ UNCHANGED <<op, args, sent>>

\* Faulty send_err: the first failure is answered by sending the request
\* again.
send_err_retry(c, S) ==
    /\ pc[c] = "send"
    /\ \E cause \in S.failures :
         IF Len(sent[c]) < 2
         THEN /\ sent' = [sent EXCEPT ![c] = Append(@, sent[c][1])]
              /\ UNCHANGED <<res, result, pc>>
         ELSE /\ res' = [res EXCEPT ![c] = [t |-> "error", cause |-> cause]]
              /\ result' = [result EXCEPT ![c] = send_error(cause)]
              /\ pc' = [pc EXCEPT ![c] = "done"]
              /\ UNCHANGED sent
    /\ UNCHANGED <<op, args>>

\* client.send(req).await resolves with an error: `?` returns it.
send_err(c, S) ==
    /\ pc[c] = "send"
    /\ \E cause \in S.failures :
         /\ res' = [res EXCEPT ![c] = [t |-> "error", cause |-> cause]]
         /\ result' = [result EXCEPT ![c] = send_error(cause)]
    /\ pc' = [pc EXCEPT ![c] = "done"]
    /\ UNCHANGED <<op, args, sent>>

\* Faulty decode: a non-2xx answer is an error whatever its body.
decode_checks_status(c) ==
    /\ pc[c] = "body_json"
    /\ result' = [result EXCEPT ![c] =
                    IF res[c].status \in 200..299 THEN body_json(op[c], res[c].body)
                    ELSE Err("body_json", "status")]
    /\ pc' = [pc EXCEPT ![c] = "done"]
    /\ UNCHANGED <<op, args, sent, res>>

\* res.body_json().await resolves: Ok(resp), or `?` returns the error.
decode(c) ==
    /\ pc[c] = "body_json"
    /\ result' = [result EXCEPT ![c] = body_json(op[c], res[c].body)]
    /\ pc' = [pc EXCEPT ![c] = "done"]
    /\ UNCHANGED <<op, args, sent, res>>

Step(S) ==
    \E c \in S.calls :
        \/ call_get_app_access_token(c, S)
        \/ call_get_app_access_token_with_scopes(c, S)
        \/ call_validate_token(c, S)
        \/ call_remoke_token(c, S)
        \/ send_ok(c, S)
        \/ send_err(c, S)
        \/ decode(c)

(***************************************************************************)
(* Inputs and transport answers the calls are checked with.                *)
(***************************************************************************)
ReqChars == {"a", " ", "&", "=", "+", "%"}
Texts    == SeqsUpTo(ReqChars, MaxLen)

ScopeNames == {<<"a">>, <<"b", ":", "c">>, <<"a", " ">>}
ScopeLists == SeqsUpTo(ScopeNames, MaxScopes)

Ops == {"get_app_access_token", "get_app_access_token_with_scopes",
        "validate_token", "remoke_token"}
TokenOps == Ops \ {"remoke_token"}

\* What the token endpoint answers when it rejects the call.
ErrorBody == JObject([status |-> JNum(401), message |-> JStr("invalid access token")])

GoodApp == JObject([access_token |-> JStr("x"), expires_in |-> JNum(3600),
                    scope |-> JNull, token_type |-> JStr("bearer")])
GoodValidated == JObject([client_id |-> JStr("i"), login |-> JNull,
                          user_id |-> JNull, scopes |-> JArr(<<JStr("s")>>)])

AppBodies ==
    {JObject([access_token |-> a, expires_in |-> e, scope |-> s, token_type |-> k]) :
        a \in {JAbsent, JNull, JStr("x")},
        e \in {JAbsent, JStr("3600"), JNum(3600), JNum(0), JNum(-1)},
        s \in {JAbsent, JNull, JArr(<<JStr("s")>>), JStr("s")},
        k \in {JAbsent, JNum(1), JStr("bearer")}}

ValidatedBodies ==
    {JObject([client_id |-> i, login |-> l, user_id |-> u, scopes |-> s]) :
        i \in {JAbsent, JNull, JStr("i")},
        l \in {JAbsent, JNull, JStr("l"), JNum(7)},
        u \in {JAbsent, JNull, JStr("7")},
        s \in {JAbsent, JNull, JArr(<<>>), JArr(<<JStr("s")>>)}}

Unshaped == {Garbage, EmptyBody, ErrorBody}

\* Two concurrent calls, few inputs.
Concurrent ==
    [calls          |-> Calls,
     ids            |-> {<<"i">>},
     secrets        |-> {<<"s">>},
     scoped_ids     |-> {<<"i">>},
     scoped_secrets |-> {<<"s">>},
     scopes         |-> {<< <<"a">>, <<"b">> >>},
     tokens         |-> {<<"t">>, <<"u">>},
     revoke_ids     |-> {<<"i">>},
     statuses       |-> [o \in Ops |-> {200, 401}],
     bodies         |-> [o \in Ops |->
                            IF o = "validate_token" THEN {GoodValidated, ErrorBody}
                            ELSE {GoodApp, ErrorBody}],
     failures       |-> {"connect"}]

\* One call, every text up to MaxLen as an argument.
RequestInputs ==
    [calls          |-> {1},
     ids            |-> Texts,
     secrets        |-> {<<"s">>, <<"=", "&">>},
     scoped_ids     |-> {<<"i">>, <<"&">>},
     scoped_secrets |-> {<<"s">>},
     scopes         |-> ScopeLists,
     tokens         |-> Texts,
     revoke_ids     |-> {<<"i">>, <<"%">>},
     statuses       |-> [o \in Ops |-> {200, 401}],
     bodies         |-> [o \in Ops |->
                            IF o = "validate_token" THEN {GoodValidated, ErrorBody}
                            ELSE {GoodApp, ErrorBody}],
     failures       |-> {"connect"}]

\* One call, every answer of the transport: each status from 200 to 599 for
\* the revocation, a sample of each status class with every body shape for
\* the decoding operations.
ResponseInputs ==
    [calls          |-> {1},
     ids            |-> {<<"i">>},
     secrets        |-> {<<"s">>},
     scoped_ids     |-> {<<"i">>},
     scoped_secrets |-> {<<"s">>},
     scopes         |-> {<< <<"a">> >>},
     tokens         |-> {<<"t">>},
     revoke_ids     |-> {<<"i">>},
     statuses       |-> [o \in Ops |->
                            IF o = "remoke_token" THEN 200..599
                            ELSE {200, 204, 299, 300, 400, 401, 500, 599}],
     bodies         |-> [o \in Ops |->
                            IF o = "validate_token" THEN ValidatedBodies \cup Unshaped
                            ELSE IF o = "remoke_token" THEN {EmptyBody, Garbage}
                            ELSE AppBodies \cup Unshaped],
     failures       |-> {"connect", "dns", "tls"}]

Next         == Step(Concurrent)
NextRequest  == Step(RequestInputs)
NextResponse == Step(ResponseInputs)

Spec         == Init /\ [][Next]_vars
SpecRequest  == Init /\ [][NextRequest]_vars
SpecResponse == Init /\ [][NextResponse]_vars

\* The executor resumes a call whose awaited body has arrived.
FairSpec == Spec /\ \A c \in Calls : WF_vars(decode(c))

(***************************************************************************)
(* How the authorization server reads a request: the query is split at '&' *)
(* and each pair at its first '=', then '+' is read as a space and %XX as  *)
(* the byte it names.                                                      *)
(***************************************************************************)
Find(s, ch) ==
    IF \E i \in DOMAIN s : s[i] = ch
    THEN CHOOSE i \in DOMAIN s : s[i] = ch /\ \A j \in 1..(i - 1) : s[j] # ch
    ELSE 0

RECURSIVE Split(_, _)
Split(s, ch) ==
    LET i == Find(s, ch)
    IN  IF i = 0 THEN <<s>>
        ELSE <<SubSeq(s, 1, i - 1)>> \o Split(SubSeq(s, i + 1, Len(s)), ch)

PercentByte(h1, h2) ==
    CASE h1 = "2" /\ h2 = "0" -> <<" ">>
      [] h1 = "2" /\ h2 = "5" -> <<"%">>
      [] h1 = "2" /\ h2 = "6" -> <<"&">>
      [] h1 = "2" /\ h2 = "B" -> <<"+">>
      [] h1 = "3" /\ h2 = "A" -> <<":">>
      [] h1 = "3" /\ h2 = "D" -> <<"=">>
      [] OTHER -> <<"%", h1, h2>>

RECURSIVE form_decode(_)
form_decode(s) ==
    IF s = <<>> THEN <<>>
    ELSE IF Head(s) = "+" THEN <<" ">> \o form_decode(Tail(s))
    ELSE IF Head(s) = "%" /\ Len(s) >= 3
         THEN PercentByte(s[2], s[3]) \o form_decode(SubSeq(s, 4, Len(s)))
    ELSE <<Head(s)>> \o form_decode(Tail(s))

\* The decoded (name, value) pairs of a URL's query, in order.
query_pairs(url) ==
    IF ~url.query.present THEN <<>>
    ELSE LET segs == SelectSeq(Split(url.query.text, "&"), LAMBDA x : x # <<>>)
         IN  [i \in DOMAIN segs |->
                LET k == Find(segs[i], "=")
                IN  IF k = 0 THEN <<form_decode(segs[i]), <<>>>>
                    ELSE <<form_decode(SubSeq(segs[i], 1, k - 1)),
                           form_decode(SubSeq(segs[i], k + 1, Len(segs[i])))>>]

QueryNames(req) == {query_pairs(req.url)[i][1] : i \in DOMAIN query_pairs(req.url)}

\* The pairs as a set; with Len(query_pairs) = Cardinality(QueryNames) every
\* name occurs once.
QuerySet(req) == {query_pairs(req.url)[i] : i \in DOMAIN query_pairs(req.url)}

Started(c)  == sent[c] # <<>>
Request(c)  == sent[c][1]
Answered(c) == res[c].t = "response"
Done(c)     == pc[c] = "done"
Is2xx(st)   == st \in 200..299

\* C1: remoke_token returns Ok with exactly the status the transport
\* delivered, whatever it is in 200..599, and an error carrying no status
\* when the transport could not send.
C1_RevokeReturnsStatus ==
    \A c \in Calls :
        (op[c] = "remoke_token" /\ Done(c)) =>
            /\ Answered(c) => /\ result[c].t = "Ok"
                              /\ DOMAIN result[c] = {"t", "status"}
                              /\ result[c].status = res[c].status
            /\ res[c].t = "error" => /\ result[c].t = "Err"
                                     /\ "status" \notin DOMAIN result[c]
                                     /\ "status" \notin DOMAIN result[c].err

C1_Witness ==
    \E c \in Calls :
        /\ op[c] = "remoke_token" /\ Done(c) /\ Answered(c)
        /\ res[c].status = 599
        /\ result[c].t = "Ok"

\* C2: validate_token sends a GET to the validate endpoint with the header
\* authorization: "OAuth " followed by the unmodified token, and no query.
C2_ValidateRequest ==
    \A c \in Calls :
        (op[c] = "validate_token" /\ Started(c)) =>
            /\ Len(sent[c]) = 1
            /\ Request(c).method = "GET"
            /\ Request(c).url.base = "https://id.twitch.tv/oauth2/validate"
            /\ ~Request(c).url.query.present
            /\ Request(c).headers =
                 {<<"authorization",
                    <<"O", "A", "u", "t", "h", " ">> \o args[c].access_token>>}

C2_Witness ==
    \E c \in Calls :
        /\ op[c] = "validate_token" /\ Started(c)
        /\ args[c].access_token = <<"a", " ">>

\* C3: get_app_access_token sends a POST to the token endpoint whose query
\* holds exactly grant_type=client_credentials, client_id and client_secret
\* (the inputs, once decoded), and no scope.
C3_TokenRequest ==
    \A c \in Calls :
        (op[c] = "get_app_access_token" /\ Started(c)) =>
            /\ Request(c).method = "POST"
            /\ Request(c).url.base = "https://id.twitch.tv/oauth2/token"
            /\ Len(query_pairs(Request(c).url)) = 3
            /\ QuerySet(Request(c)) =
                 {<< <<"grant_type">>, <<"client_credentials">> >>,
                  << <<"client_id">>, args[c].client_id >>,
                  << <<"client_secret">>, args[c].client_secret >>}
            /\ <<"scope">> \notin QueryNames(Request(c))

C3_Witness ==
    \E c \in Calls :
        /\ op[c] = "get_app_access_token" /\ Started(c)
        /\ args[c].client_id = <<"&", "=">>
        /\ args[c].client_secret = <<"=", "&">>

\* Where scope i starts in the joined text, and how long the joined text is.
RECURSIVE Offset(_, _)
Offset(scopes, i) ==
    IF i = 1 THEN 1 ELSE Offset(scopes, i - 1) + Len(scopes[i - 1]) + 1

JoinedLen(scopes) == Offset(scopes, Len(scopes)) + Len(scopes[Len(scopes)]) - 1

ScopeValues(req) ==
    {query_pairs(req.url)[i][2] :
        i \in {j \in DOMAIN query_pairs(req.url) : query_pairs(req.url)[j][1] = <<"scope">>}}

\* C4: for a non-empty scopes list the decoded scope parameter is the
\* scopes in input order, one space between neighbours and nothing before
\* or after, next to the three parameters of the unscoped operation.
C4_ScopesJoined ==
    \A c \in Calls :
        (/\ op[c] = "get_app_access_token_with_scopes"
         /\ Started(c)
         /\ args[c].scopes # <<>>) =>
            /\ Request(c).method = "POST"
            /\ Request(c).url.base = "https://id.twitch.tv/oauth2/token"
            /\ Len(query_pairs(Request(c).url)) = 4
            /\ QueryNames(Request(c)) =
                 {<<"grant_type">>, <<"client_id">>, <<"client_secret">>, <<"scope">>}
            /\ << <<"grant_type">>, <<"client_credentials">> >> \in QuerySet(Request(c))
            /\ << <<"client_id">>, args[c].client_id >> \in QuerySet(Request(c))
            /\ << <<"client_secret">>, args[c].client_secret >> \in QuerySet(Request(c))
            /\ \A v \in ScopeValues(Request(c)) :
                 LET scopes == args[c].scopes
                 IN  /\ Len(v) = JoinedLen(scopes)
                     /\ \A i \in DOMAIN scopes :
                          /\ SubSeq(v, Offset(scopes, i),
                                    Offset(scopes, i) + Len(scopes[i]) - 1) = scopes[i]
                          /\ i > 1 => v[Offset(scopes, i) - 1] = " "

C4_Witness ==
    \E c \in Calls :
        /\ op[c] = "get_app_access_token_with_scopes" /\ Started(c)
        /\ args[c].scopes = << <<"b", ":", "c">>, <<"a">> >>

\* C5: with an empty scopes list the scope parameter is present with an
\* empty value, so the request is none of those get_app_access_token may
\* build for the same credentials.
C5_EmptyScopes ==
    \A c \in Calls :
        (/\ op[c] = "get_app_access_token_with_scopes"
         /\ Started(c)
         /\ args[c].scopes = <<>>) =>
            /\ Len(query_pairs(Request(c).url)) = 4
            /\ << <<"scope">>, <<>> >> \in QuerySet(Request(c))
            /\ Request(c) \notin get_app_access_token(args[c].client_id,
                                                      args[c].client_secret)
            /\ \A r \in get_app_access_token(args[c].client_id, args[c].client_secret) :
                 QuerySet(r) # QuerySet(Request(c))

C5_Witness ==
    \E c \in Calls :
        /\ op[c] = "get_app_access_token_with_scopes" /\ Started(c)
        /\ args[c].scopes = <<>>
        /\ args[c].client_id = <<"&">>

(***************************************************************************)
(* The JSON shapes of section 6 of the specification, read off a body.     *)
(***************************************************************************)
StringArray(v) == v.t = "arr" /\ \A i \in DOMAIN v.a : v.a[i].t = "str"
NullOrAbsent(v) == v.t = "absent" \/ v.t = "null"

HasAppAccessTokenShape(b) ==
    /\ b.t = "object"
    /\ Member(b, "access_token").t = "str"
    /\ Member(b, "expires_in").t = "num" /\ Member(b, "expires_in").n >= 0
    /\ Member(b, "token_type").t = "str"
    /\ (NullOrAbsent(Member(b, "scope")) \/ StringArray(Member(b, "scope")))

HasValidatedTokenShape(b) ==
    /\ b.t = "object"
    /\ Member(b, "client_id").t = "str"
    /\ StringArray(Member(b, "scopes"))
    /\ (NullOrAbsent(Member(b, "login")) \/ Member(b, "login").t = "str")
    /\ (NullOrAbsent(Member(b, "user_id")) \/ Member(b, "user_id").t = "str")

HasShape(o, b) ==
    IF o = "validate_token" THEN HasValidatedTokenShape(b) ELSE HasAppAccessTokenShape(b)

Decoding(c) == op[c] \in TokenOps /\ Done(c) /\ Answered(c)

\* C6: a success value is returned only for a body that has every required
\* field with its type, and each field of the value is the body's; a field
\* is None only where the body has null or nothing for an optional field.
\* A body lacking a required field ends in an error.
C6_DecodeOrFail ==
    \A c \in Calls :
        Decoding(c) =>
            LET b == res[c].body
            IN  /\ result[c].t \in {"Ok", "Err"}
                /\ (result[c].t = "Ok" /\ op[c] # "validate_token") =>
                     /\ b.t = "object"
                     /\ Member(b, "access_token").t = "str"
                     /\ result[c].token.access_token = Member(b, "access_token").s
                     /\ Member(b, "expires_in").t = "num"
                     /\ result[c].token.expires_in = Member(b, "expires_in").n
                     /\ Member(b, "token_type").t = "str"
                     /\ result[c].token.token_type = Member(b, "token_type").s
                     /\ result[c].token.scope = <<>> <=> NullOrAbsent(Member(b, "scope"))
                /\ (result[c].t = "Ok" /\ op[c] = "validate_token") =>
                     /\ b.t = "object"
                     /\ Member(b, "client_id").t = "str"
                     /\ result[c].validated.client_id = Member(b, "client_id").s
                     /\ StringArray(Member(b, "scopes"))
                     /\ Len(result[c].validated.scopes) = Len(Member(b, "scopes").a)
                     /\ result[c].validated.login = <<>> <=> NullOrAbsent(Member(b, "login"))
                     /\ result[c].validated.user_id = <<>>
                            <=> NullOrAbsent(Member(b, "user_id"))

C6_Witness ==
    \E c \in Calls :
        /\ Decoding(c) /\ op[c] = "get_app_access_token"
        /\ res[c].body.t = "object"
        /\ Member(res[c].body, "access_token").t = "absent"
        /\ Member(res[c].body, "expires_in") = JNum(3600)
        /\ Member(res[c].body, "token_type").t = "str"
        /\ result[c].t = "Err"

Rejected(c) == Decoding(c) /\ ~Is2xx(res[c].status) /\ ~HasShape(op[c], res[c].body)

\* C7 as stated: after a non-2xx answer whose body does not decode, the
\* error returned carries the answer's status code and is not the error of
\* a failed send.
C7_ErrorKeepsStatus ==
    \A c \in Calls :
        Rejected(c) =>
            /\ result[c].t = "Err"
            /\ result[c].err.source # "send"
            /\ "status" \in DOMAIN result[c].err
            /\ result[c].err.status = res[c].status

\* C7 amended: after a non-2xx answer whose body does not decode, the error
\* returned is the decoder's error from body_json, which is not the error
\* of a failed send, and it carries no status code.
C7_ErrorIsDecodeError ==
    \A c \in Calls :
        Rejected(c) =>
            /\ result[c].t = "Err"
            /\ result[c].err.source = "body_json"
            /\ result[c].err.source # send_error("connect").err.source
            /\ DOMAIN result[c].err = {"source", "cause"}
            /\ result[c].err.cause \in {"syntax", "eof", "data"}

C7_Witness ==
    \E c \in Calls :
        /\ Rejected(c) /\ op[c] = "validate_token"
        /\ res[c].status = 401 /\ res[c].body = ErrorBody
        /\ result[c].t = "Err"

\* C10: the three decoding operations never look at the status: a body of
\* the expected shape gives the success value and any other body the error,
\* for 2xx and non-2xx answers alike.
C10_StatusIgnored ==
    \A c \in Calls :
        Decoding(c) =>
            /\ HasShape(op[c], res[c].body) => result[c].t = "Ok"
            /\ ~HasShape(op[c], res[c].body) => result[c].t = "Err"
            /\ result[c] = body_json(op[c], res[c].body)

C10_Witness ==
    \E c \in Calls :
        /\ Decoding(c) /\ op[c] = "get_app_access_token_with_scopes"
        /\ res[c].status = 401
        /\ result[c].t = "Ok"

\* C8: a call hands at most one request to the transport and ends in one
\* outcome: a finished call has sent exactly one request and holds one Ok
\* or Err, which no later step changes or follows with another request;
\* and a call whose answer or failure has arrived finishes.
C8_OneRequestOneOutcome ==
    /\ [](\A c \in Calls :
            /\ Len(sent[c]) <= 1
            /\ Done(c) <=> result[c].t \in {"Ok", "Err"}
            /\ Done(c) => Len(sent[c]) = 1)
    /\ [][\A c \in Calls :
            Done(c) => /\ pc'[c] = "done"
                       /\ result'[c] = result[c]
                       /\ sent'[c] = sent[c]]_vars
    /\ \A c \in Calls : (res[c].t # "none") ~> Done(c)

C8_Witness ==
    \E c \in Calls :
        /\ Done(c) /\ Len(sent[c]) = 1
        /\ result[c].t = "Err" /\ result[c].err.source = "body_json"
        /\ \E d \in Calls : Done(d) /\ res[d].t = "error" /\ Len(sent[d]) = 1

\* What the server must read from a call's request, given its arguments.
ExpectedQuery(o, a) ==
    CASE o = "get_app_access_token" ->
            {<< <<"grant_type">>, <<"client_credentials">> >>,
             << <<"client_id">>, a.client_id >>,
             << <<"client_secret">>, a.client_secret >>}
      [] o = "get_app_access_token_with_scopes" ->
            {<< <<"grant_type">>, <<"client_credentials">> >>,
             << <<"client_id">>, a.client_id >>,
             << <<"client_secret">>, a.client_secret >>,
             << <<"scope">>, join(a.scopes, <<" ">>) >>}
      [] o = "validate_token" -> {}
      [] o = "remoke_token" ->
            {<< <<"token">>, a.access_token >>, << <<"client_id">>, a.client_id >>}

ExpectedHeaders(o, a) ==
    IF o = "validate_token"
    THEN {<<"authorization", <<"O", "A", "u", "t", "h", " ">> \o a.access_token>>}
    ELSE {}

\* What a call must return, given the answer to its own request.
Outcome(o, r) ==
    IF r.t = "error" THEN Err("send", r.cause)
    ELSE IF o = "remoke_token" THEN Ok_status(r.status)
    ELSE body_json(o, r.body)

CallState(c) == <<op[c], args[c], sent[c], res[c], result[c], pc[c]>>

\* C9: under every interleaving a call's request is determined by its own
\* arguments and its result by the answer to its own request, and a step of
\* one call leaves every other call's state as it was.
C9_CallsIndependent ==
    /\ [](\A c \in Calls :
            /\ Started(c) =>
                 /\ QuerySet(Request(c)) = ExpectedQuery(op[c], args[c])
                 /\ Request(c).headers = ExpectedHeaders(op[c], args[c])
            /\ Done(c) => result[c] = Outcome(op[c], res[c]))
    /\ [][\A c, d \in Calls :
            (c # d /\ CallState(c)' # CallState(c)) => CallState(d)' = CallState(d)]_vars

C9_Witness ==
    \E c, d \in Calls :
        /\ c # d
        /\ op[c] = "validate_token" /\ op[d] = "validate_token"
        /\ args[c] # args[d]
        /\ pc[c] = "body_json" /\ Done(d) /\ Answered(d)
        /\ res[c].status # res[d].status

====
